---- MODULE Spec2Model ----
(***************************************************************************)
(* luxa-driver: the queued LuxaFlag facade (device/flag.ts), the task      *)
(* queue of LuxaDevice (device/device.ts), the protocol constants and      *)
(* response decoder (protocol.ts) and the helpers of util.ts.              *)
(*                                                                         *)
(* JavaScript runs on one thread: a public method (enqueue, clear, a       *)
(* facade command) and a promise reaction each run to completion, so each  *)
(* is one action.  Promise reactions are jobs of the FIFO microtask queue; *)
(* an inbound 'data' event is a macrotask and is delivered only when the   *)
(* microtask queue is empty; a caller may call a public method between any *)
(* two jobs.                                                               *)
(***************************************************************************)
EXTENDS Integers, Sequences, FiniteSets, TLC

\* --------------------------------------------------------------- bounds
\* How many facade commands are issued in one run.
MaxTasks == 3
\* How many times clear() is called in one run.
MaxClears == 1

\* -------------------------------------------------------------- numbers
\* A JavaScript number is kept in fixed point: the integer x stands for the
\* number x / Unit, so that the brightness 0.5 is representable.
Unit == 2
\* The one number that is not ordered: Math.max, Math.min and the arithmetic
\* operators return it whenever an operand is it.
NaN == -1000000

Num(n) == IF n = NaN THEN NaN ELSE n * Unit

Math_max(a, b) == IF a = NaN \/ b = NaN THEN NaN ELSE IF a > b THEN a ELSE b

Math_min(a, b) == IF a = NaN \/ b = NaN THEN NaN ELSE IF a < b THEN a ELSE b

\* util.ts clamp
clamp(input, minimum, maximum) == Math_min(Math_max(input, minimum), maximum)

\* a * b, used with a an integer-valued number (a colour channel)
Mul(a, b) == IF a = NaN \/ b = NaN THEN NaN ELSE (a * b) \div Unit

\* a % m of JavaScript: the result has the sign of the dividend
JSRem(a, m) ==
    IF a = NaN THEN NaN
    ELSE IF a >= 0 THEN a % m ELSE 0 - ((0 - a) % m)

\* a | 0 of JavaScript: NaN becomes 0, a fraction is truncated towards zero.
\* The result is an integer, no longer in fixed point.
ToInt32(a) ==
    IF a = NaN THEN 0
    ELSE IF a >= 0 THEN a \div Unit ELSE 0 - ((0 - a) \div Unit)

\* ------------------------------------------------------------- protocol
COLOR == 1
FADE == 2
FLASH == 3
WAVE == 4

ACK == 16896
DONE == 1

ALL == 255
FRONT == 65
BACK == 66

ONE == 1

\* buffer.readUInt16BE() on a buffer shorter than two bytes throws.
Readable(buffer) == Len(buffer) >= 2

\* A read that takes the low byte first.
readUInt16LE(buffer) == buffer[2] * 256 + buffer[1]

readUInt16BE(buffer) == buffer[1] * 256 + buffer[2]

\* A decodeResponse that returns whatever it read.
Unchecked(buffer) == Readable(buffer)

\* decodeResponse returns (TRUE) or throws (FALSE)
Decodes(buffer) == Readable(buffer) /\ readUInt16BE(buffer) \in {ACK, DONE}

decodeResponse(buffer) == readUInt16BE(buffer)

\* ----------------------------------------------------------------- util
HexLower == <<"0", "1", "2", "3", "4", "5", "6", "7", "8", "9", "a", "b", "c", "d", "e", "f">>

HexUpper == <<"0", "1", "2", "3", "4", "5", "6", "7", "8", "9", "A", "B", "C", "D", "E", "F">>

\* [0-9a-f] under the i flag
IsHex(c) == \E i \in 1..16 : HexLower[i] = c \/ HexUpper[i] = c

\* the value of one digit; NaN for a character that is not a hex digit
HexVal(c) ==
    IF IsHex(c) THEN (CHOOSE i \in 1..16 : HexLower[i] = c \/ HexUpper[i] = c) - 1
    ELSE NaN

IsSpace(c) == c = " "

RECURSIVE trimStart(_)
trimStart(s) == IF s # <<>> /\ IsSpace(Head(s)) THEN trimStart(Tail(s)) ELSE s

RECURSIVE trimEnd(_)
trimEnd(s) ==
    IF s # <<>> /\ IsSpace(s[Len(s)]) THEN trimEnd(SubSeq(s, 1, Len(s) - 1)) ELSE s

trim(s) == trimEnd(trimStart(s))

\* the digits after the optional leading '#'
Digits(color) == IF color # <<>> /\ Head(color) = "#" THEN Tail(color) ELSE color

\* A pattern that checks the number of digits only.
LengthOnly(color) == Len(Digits(trim(color))) \in 3..6

\* COLOR_REG.exec(color.trim()) matches: three groups of one or two hex digits
ValidColor(color) ==
    LET d == Digits(trim(color))
    IN  /\ Len(d) \in 3..6
        /\ \A i \in 1..Len(d) : IsHex(d[i])

\* The three capture groups.  Each {1,2} is greedy and gives a digit back only
\* when the groups after it would otherwise have none.
Groups(d) ==
    LET n == Len(d)
        l1 == IF n - 2 >= 2 THEN 2 ELSE 1
        l2 == IF n - l1 - 1 >= 2 THEN 2 ELSE 1
    IN  <<SubSeq(d, 1, l1), SubSeq(d, l1 + 1, l1 + l2), SubSeq(d, l1 + l2 + 1, n)>>

\* Number.parseInt(str, 16) after a single digit has been doubled: NaN when
\* the first character is no digit, the digits before the first non-digit
\* otherwise.
parseGroup(str) ==
    LET hi == HexVal(str[1])
        lo == IF Len(str) = 1 THEN hi ELSE HexVal(str[2])
    IN  IF hi = NaN THEN NaN
        ELSE IF lo = NaN THEN hi
        ELSE 16 * hi + lo

\* util.ts hex2bytes, for a colour that matches (it throws otherwise).  match is
\* bound to the value of the one COLOR_REG.exec call.
hex2bytes(color) ==
    CHOOSE bytes \in { <<parseGroup(match[1]), parseGroup(match[2]), parseGroup(match[3])>> :
                        match \in {Groups(Digits(trim(color)))} } : TRUE

\* ---------------------------------------------------------------- state
Undefined == -1

\* A Task of the queue: the closure a facade method built, and the id of its
\* DeferredPromise.  NoTask is "current is undefined".  The field at is history:
\* the configuration that was in force when the facade method was called.
NoBody == [op |-> "none", color |-> <<>>, wave |-> 0, opts |-> <<>>]

NoSnapshot == [by |-> 0, config |-> <<>>]

NoTask == [id |-> 0, body |-> NoBody, at |-> NoSnapshot]

TaskIds == 1..MaxTasks

VARIABLES
    platform,          \* os.platform()
    brightness,        \* LuxaFlag.brightness
    defaultTarget,     \* LuxaFlag.defaultTarget
    defaultDuration,   \* LuxaFlag.defaultDuration
    defaultTimes,      \* LuxaFlag.defaultTimes
    current,           \* LuxaDevice.current
    queue,             \* LuxaDevice.queue
    unblock,           \* LuxaDevice.unblock: the task whose blockUntil deferred it resolves
    unblockOn,         \* LuxaDevice.unblockOn
    body,              \* per task: the promise returned by task.body()
    promise,           \* per task: task.promise (the DeferredPromise of enqueue)
    future,            \* per task: the promise enqueue returned to the caller
    clears,            \* the promises clear() returned, in call order
    microtasks,        \* the pending promise reactions, first in first out
    written,           \* what device.write was called with, in call order
    calls,             \* history: the facade method of each command, by task id
    started,           \* history: ids of the tasks whose body was started, in order
    cleared,           \* history: ids of the tasks clear() removed from the queue
    heard,             \* history: the responses decoded while the current task waits
    configuredBy,      \* history: id of the configure task that last ran (0: constructor)
    inbound            \* history: the buffer of the 'data' event the last step delivered

config == <<brightness, defaultTarget, defaultDuration, defaultTimes>>

vars == <<platform, brightness, defaultTarget, defaultDuration, defaultTimes, current,
          queue, unblock, unblockOn, body, promise, future, clears, microtasks,
          written, calls, started, cleared, heard, configuredBy, inbound>>

\* The configuration in force, and the configure task that set it.
Snapshot == [by |-> configuredBy, config |-> config]

\* --------------------------------------------------------------- inputs
Platforms == {"linux", "win32"}

\* FlagOptions objects; a field that is absent is undefined.  0.5 is Unit / 2.
Half == Unit \div 2

ConfigureOptions ==
    { <<>>,
      [brightness |-> Half],
      [brightness |-> Num(5), target |-> Num(FRONT)],
      [brightness |-> Num(0 - 1)],
      [brightness |-> NaN],
      [duration |-> Num(300), times |-> Num(0 - 3)],
      [brightness |-> Half, target |-> Num(BACK), duration |-> Num(255), times |-> Num(0)] }

\* The options of the configure calls that are mixed with commands.
QueuedConfigureOptions == { [brightness |-> Half, target |-> Num(FRONT), duration |-> Num(300)] }

Green == <<"#", "0", "f", "0">>
Cyan == <<" ", "#", "0", "0", "F", "F", "f", "f">>
Red == <<"r", "e", "d">>
Black == <<"#", "0", "0", "0">>

\* Strings that are no colour: two digits, letters that are no digits, blank.
TwoDigits == <<"#", "f", "f">>

NotHex == <<"#", "g", "g", "g", "g", "g", "g">>

Blank == <<" ">>

Call(op, color, wave, opts) == [op |-> op, color |-> color, wave |-> wave, opts |-> opts]

\* The facade invocations a caller makes.
Calls ==
    { Call("configure", <<>>, 0, o) : o \in QueuedConfigureOptions }
    \cup { Call("color", c, 0, <<>>) : c \in {Green, Red} }
    \cup { Call("off", <<>>, 0, [target |-> Num(BACK)]),
           Call("fade", Green, 0, [duration |-> Num(7)]),
           Call("flash", Cyan, 0, [target |-> Num(FRONT), times |-> Num(0 - 1)]),
           Call("wave", Cyan, Num(ONE), [duration |-> Num(20), times |-> Num(5)]) }

\* Inbound buffers: ACK, DONE, an unknown code, a buffer of one byte.
Buffers == { <<66, 0>>, <<0, 1>>, <<0, 0>>, <<66>> }

\* -------------------------------------------------------------- facade
\* opts?.field ?? fallback
Opt(opts, field, fallback) == IF field \in DOMAIN opts THEN opts[field] ELSE fallback

\* LuxaFlag._configure: the four fields it assigns
_configure(opts) ==
    << clamp(Opt(opts, "brightness", Num(1)), Num(0), Num(1)),
       Opt(opts, "target", Num(ALL)),
       clamp(Opt(opts, "duration", Num(20)), Num(0), Num(255)),
       clamp(Opt(opts, "times", Num(5)), Num(0), Num(255)) >>

\* LuxaFlag.hex2bytes: each channel times the brightness.  bytes is bound to
\* the value of the one hex2bytes call.
scaled(color, b) ==
    CHOOSE rgb \in { [i \in 1..3 |-> Mul(Num(bytes[i]), b)] :
                      bytes \in {hex2bytes(color)} } : TRUE

\* off(target) is color('#000', target); every other method enqueues its own closure.
Closure(call) ==
    IF call.op = "off" THEN Call("color", Black, 0, call.opts) ELSE call

\* An encoder that puts the duration before the times for every command.
SameOrder(b, cfg) ==
    LET target == Opt(b.opts, "target", cfg[2])
        duration == Opt(b.opts, "duration", cfg[3])
        times == Opt(b.opts, "times", cfg[4])
        rgb == scaled(b.color, cfg[1])
    IN  CASE b.op = "color" -> <<Num(COLOR), target>> \o rgb \o <<Num(0), Num(0)>>
          [] b.op = "fade" -> <<Num(FADE), target>> \o rgb \o <<duration, Num(0)>>
          [] b.op = "flash" -> <<Num(FLASH), target>> \o rgb \o <<duration, Num(0), times>>
          [] b.op = "wave" -> <<Num(WAVE), b.wave>> \o rgb \o <<Num(0), duration, times>>

\* The arguments a command closure passes to this.write, read from the
\* configuration cfg when the closure runs.
Args(b, cfg) ==
    LET target == Opt(b.opts, "target", cfg[2])
        duration == Opt(b.opts, "duration", cfg[3])
        times == Opt(b.opts, "times", cfg[4])
        rgb == scaled(b.color, cfg[1])
    IN  CASE b.op = "color" -> <<Num(COLOR), target>> \o rgb \o <<Num(0), Num(0)>>
          [] b.op = "fade" -> <<Num(FADE), target>> \o rgb \o <<duration, Num(0)>>
          [] b.op = "flash" -> <<Num(FLASH), target>> \o rgb \o <<duration, Num(0), times>>
          [] b.op = "wave" -> <<Num(WAVE), b.wave>> \o rgb \o <<Num(0), times, duration>>

\* The response a command closure passes to blockUntil.
Awaited(op) == IF op = "color" THEN ACK ELSE DONE

\* LuxaDevice.write: every number becomes byte % 256 | 0; one leading zero on
\* Windows.  flat is bound to the value of the arguments, evaluated once.
write(data, os) ==
    CHOOSE bytes \in { (IF os = "win32" THEN <<0>> ELSE <<>>)
                          \o [i \in 1..Len(flat) |-> ToInt32(JSRem(flat[i], Num(256)))] :
                        flat \in {data} } : TRUE

\* A queue that puts the new task at the front.
PushedFront(q, task) == <<task>> \o q

\* ---------------------------------------------------------------- queue
\* enqueue: this.queue.push(task)
Pushed(q, task) == Append(q, task)

\* An enqueue that calls next() whether or not a task is current.
AlwaysStart(cur) == TRUE

\* An enqueue that only pushes, and leaves the start to a later advance.
NeverStart(cur) == FALSE

\* enqueue: if (!this.current) this.next()
ShouldStart(cur) == cur = NoTask

\* A clear that leaves the queue as it is.
Kept(q) == q

\* clear: this.queue = []
Emptied(q) == <<>>

\* A clear that never waits for the current task.
NoTarget(cur) == 0

\* clear: this.current ? this.current.promise : Promise.resolve()
\* (the task whose promise the returned promise follows; 0: none)
ClearTarget(cur) == IF cur # NoTask THEN cur.id ELSE 0

\* A listener that resumes the waiting task on any recognised response.
AnyResponse(handle, expected, response) == handle # Undefined

\* the 'data' listener: this.unblock && this.unblockOn === response
Matches(handle, expected, response) == handle # Undefined /\ expected = response

\* An enqueue that returns the deferred without the handler that calls next().
FutureOnly(t, cl) == <<<<"settleFuture", t>>>>

\* An enqueue whose returned promise follows the deferred itself, so that it is
\* settled before the handler that calls next() has run.
FutureFirst(t, cl) == <<<<"settleFuture", t>>, <<"advance", t>>>>

\* The reactions of task.promise in the order they were registered: first the
\* handler enqueue attached (it calls next), then the promises clear() returned
\* while the task was current.
Reactions(t, cl) ==
    <<<<"advance", t>>>> \o
    [i \in 1..Len(SelectSeq([j \in 1..Len(cl) |-> j],
                            LAMBDA j : cl[j].target = t /\ cl[j].state = "pending"))
        |-> <<"settleClear",
              SelectSeq([j \in 1..Len(cl) |-> j],
                        LAMBDA j : cl[j].target = t /\ cl[j].state = "pending")[i]>>]

Ids(q) == {q[i].id : i \in 1..Len(q)}

\* A next that keeps the marker of the task it leaves.
LeftSet(field) == field

\* next: this.unblock = undefined; this.unblockOn = undefined
Unset(field) == Undefined

\* A next that resolves the task's promise when the body has failed as well.
ResolvedAnyway(t) == <<<<"resolveTask", t>>>>

\* next: task.body().then(() => task.promise.resolve()) registers no handler
\* for a rejected body: no reaction is queued.
OnRejected(t) == <<>>

\* A closure that holds the configuration of the moment it was built.
Captured(at, now) == at

\* The closures read this.defaultTarget, this.defaultDuration, this.defaultTimes
\* and this.brightness when they run.
Resolved(at, now) == now

\* task.body().then(() => task.promise.resolve()), the body run up to its first
\* suspension.  ok: device.write returns (it throws otherwise).  mt, after: the
\* microtask queue before the body runs, and the jobs the caller adds after it.
StartBody(task, ok, mt, after) ==
    LET b == task.body IN
    IF b.op = "configure" THEN
        \* this._configure(opts); the async body has completed
        /\ brightness' = _configure(b.opts)[1]
        /\ defaultTarget' = _configure(b.opts)[2]
        /\ defaultDuration' = _configure(b.opts)[3]
        /\ defaultTimes' = _configure(b.opts)[4]
        /\ configuredBy' = task.id
        /\ body' = [body EXCEPT ![task.id] = "fulfilled"]
        /\ microtasks' = (mt \o <<<<"resolveTask", task.id>>>>) \o after
        /\ unblock' = Unset(unblock)
        /\ unblockOn' = Unset(unblockOn)
        /\ UNCHANGED written
    ELSE IF ~ValidColor(b.color) \/ ~ok THEN
        \* this.hex2bytes(color) or device.write throws: the body's promise is
        \* rejected, and nothing handles the rejection
        /\ body' = [body EXCEPT ![task.id] = "rejected"]
        /\ microtasks' = (mt \o OnRejected(task.id)) \o after
        /\ unblock' = Unset(unblock)
        /\ unblockOn' = Unset(unblockOn)
        /\ UNCHANGED <<brightness, defaultTarget, defaultDuration, defaultTimes,
                       configuredBy, written>>
    ELSE
        \* this.write(...); return this.blockUntil(response)
        /\ LET s == Resolved(task.at, Snapshot) IN
            written' = Append(written, [task |-> task.id,
                                        call |-> b,
                                        bytes |-> write(Args(b, s.config), platform),
                                        config |-> s.config,
                                        cfg |-> s.by])
        /\ unblock' = task.id
        /\ unblockOn' = Awaited(b.op)
        /\ body' = [body EXCEPT ![task.id] = "pending"]
        /\ microtasks' = mt \o after
        /\ UNCHANGED <<brightness, defaultTarget, defaultDuration, defaultTimes,
                       configuredBy>>

\* LuxaDevice.next on the queue q
next(q, ok, mt, after) ==
    /\ heard' = {}
    /\ IF q = <<>> THEN
           /\ current' = NoTask
           /\ queue' = q
           /\ unblock' = Unset(unblock)
           /\ unblockOn' = Unset(unblockOn)
           /\ microtasks' = mt \o after
           /\ UNCHANGED <<brightness, defaultTarget, defaultDuration, defaultTimes,
                          configuredBy, body, written, started>>
       ELSE
           /\ current' = Head(q)
           /\ queue' = Tail(q)
           /\ started' = Append(started, Head(q).id)
           /\ StartBody(Head(q), ok, mt, after)

\* A facade method: color, fade, flash, wave, off or configure builds its
\* closure and passes it to LuxaDevice.enqueue.
Enqueue(call, ok) ==
    /\ Len(calls) < MaxTasks
    /\ LET id == Len(calls) + 1
           q == Pushed(queue, [id |-> id, body |-> Closure(call), at |-> Snapshot])
       IN  /\ calls' = Append(calls, call.op)
           /\ future' = [future EXCEPT ![id] = "pending"]
           /\ IF ShouldStart(current)
              THEN next(q, ok, microtasks, <<>>)
              ELSE /\ queue' = q
                   /\ UNCHANGED <<brightness, defaultTarget, defaultDuration,
                                  defaultTimes, configuredBy, current, unblock,
                                  unblockOn, body, microtasks, written, started,
                                  heard>>
    /\ UNCHANGED <<platform, promise, clears, cleared>>
    /\ inbound' = <<>>

\* LuxaDevice.clear
Clear ==
    /\ Len(clears) < MaxClears
    /\ cleared' = cleared \cup Ids(queue)
    /\ queue' = Emptied(queue)
    /\ LET t == ClearTarget(current) IN
        /\ clears' = Append(clears, [running |-> current.id, target |-> t,
                                     state |-> "pending"])
        /\ microtasks' = IF t = 0 \/ promise[t] = "resolved"
                         THEN Append(microtasks, <<"settleClear", Len(clears) + 1>>)
                         ELSE microtasks
    /\ UNCHANGED <<platform, brightness, defaultTarget, defaultDuration, defaultTimes,
                   current, unblock, unblockOn, body, promise, future, written,
                   calls, started, heard, configuredBy>>
    /\ inbound' = <<>>

\* The 'data' listener of the constructor, called with buffer.
Listener(buffer) ==
    /\ microtasks = <<>>
    /\ IF Decodes(buffer)
       THEN LET response == decodeResponse(buffer) IN
            /\ heard' = IF current # NoTask /\ body[current.id] = "pending"
                        THEN heard \cup {response}
                        ELSE heard
            /\ IF Matches(unblock, unblockOn, response) /\ body[unblock] = "pending"
               THEN \* this.unblock(): the deferred of blockUntil is resolved
                    /\ body' = [body EXCEPT ![unblock] = "unblocked"]
                    /\ microtasks' = <<<<"settleBody", unblock>>>>
               ELSE UNCHANGED <<body, microtasks>>
       ELSE \* decodeResponse throws inside the listener
            UNCHANGED <<heard, body, microtasks>>
    /\ UNCHANGED <<platform, brightness, defaultTarget, defaultDuration, defaultTimes,
                   current, queue, unblock, unblockOn, promise, future, clears,
                   written, calls, started, cleared, configuredBy>>

\* A 'data' event of the device.
Data(buffer) == Listener(buffer) /\ inbound' = <<>>

\* A 'data' event of the device, with its buffer kept for inspection.
Receive(buffer) == Listener(buffer) /\ inbound' = buffer

Job(kind) == microtasks # <<>> /\ Head(microtasks)[1] = kind

\* The promise of the async body follows the resolved deferred of blockUntil.
SettleBody ==
    /\ Job("settleBody")
    /\ LET t == Head(microtasks)[2] IN
        /\ body' = [body EXCEPT ![t] = "fulfilled"]
        /\ microtasks' = Append(Tail(microtasks), <<"resolveTask", t>>)
    /\ UNCHANGED <<platform, brightness, defaultTarget, defaultDuration, defaultTimes,
                   current, queue, unblock, unblockOn, promise, future, clears,
                   written, calls, started, cleared, heard, configuredBy>>
    /\ inbound' = <<>>

\* next: () => task.promise.resolve()
ResolveTask ==
    /\ Job("resolveTask")
    /\ LET t == Head(microtasks)[2] IN
        /\ promise' = [promise EXCEPT ![t] = "resolved"]
        /\ microtasks' = Tail(microtasks) \o Reactions(t, clears)
    /\ UNCHANGED <<platform, brightness, defaultTarget, defaultDuration, defaultTimes,
                   current, queue, unblock, unblockOn, body, future, clears,
                   written, calls, started, cleared, heard, configuredBy>>
    /\ inbound' = <<>>

\* enqueue: deferred.then(() => { this.next(); }); the promise enqueue returned
\* follows the result of this handler.
Advance(ok) ==
    /\ Job("advance")
    /\ next(queue, ok, Tail(microtasks), <<<<"settleFuture", Head(microtasks)[2]>>>>)
    /\ UNCHANGED <<platform, promise, future, clears, calls, cleared>>
    /\ inbound' = <<>>

SettleFuture ==
    /\ Job("settleFuture")
    /\ future' = [future EXCEPT ![Head(microtasks)[2]] = "resolved"]
    /\ microtasks' = Tail(microtasks)
    /\ UNCHANGED <<platform, brightness, defaultTarget, defaultDuration, defaultTimes,
                   current, queue, unblock, unblockOn, body, promise, clears,
                   written, calls, started, cleared, heard, configuredBy>>
    /\ inbound' = <<>>

SettleClear ==
    /\ Job("settleClear")
    /\ clears' = [clears EXCEPT ![Head(microtasks)[2]].state = "resolved"]
    /\ microtasks' = Tail(microtasks)
    /\ UNCHANGED <<platform, brightness, defaultTarget, defaultDuration, defaultTimes,
                   current, queue, unblock, unblockOn, body, promise, future,
                   written, calls, started, cleared, heard, configuredBy>>
    /\ inbound' = <<>>

\* new LuxaFlag(device, opts): the field initialisers, then _configure(opts)
\* when opts is given.
Constructed(hosts, options) ==
    /\ platform \in hosts
    /\ \E opts \in options :
        /\ brightness = _configure(opts)[1]
        /\ defaultTarget = _configure(opts)[2]
        /\ defaultDuration = _configure(opts)[3]
        /\ defaultTimes = _configure(opts)[4]
    /\ current = NoTask
    /\ queue = <<>>
    /\ unblock = Undefined
    /\ unblockOn = Undefined
    /\ body = [t \in TaskIds |-> "unstarted"]
    /\ promise = [t \in TaskIds |-> "pending"]
    /\ future = [t \in TaskIds |-> "none"]
    /\ clears = <<>>
    /\ microtasks = <<>>
    /\ written = <<>>
    /\ calls = <<>>
    /\ started = <<>>
    /\ cleared = {}
    /\ heard = {}
    /\ configuredBy = 0
    /\ inbound = <<>>

\* LuxaFlag.findAll: new LuxaFlag(new HID(device.path)), no options.  The host
\* platform only decides the leading byte of a frame, never what the queue does.
Init == Constructed({"linux"}, {<<>>})

Next ==
    \/ \E call \in Calls, ok \in BOOLEAN : Enqueue(call, ok)
    \/ Clear
    \/ \E buffer \in Buffers : Data(buffer)
    \/ SettleBody
    \/ ResolveTask
    \/ \E ok \in BOOLEAN : Advance(ok)
    \/ SettleFuture
    \/ SettleClear

Spec == Init /\ [][Next]_vars

\* The configuration alone: a flag constructed with any of the options, and
\* configure calls only (no command writes, so no response is awaited).
ConfigCalls == { Call("configure", <<>>, 0, o) : o \in ConfigureOptions }

ConfigInit == Constructed(Platforms, ConfigureOptions)

ConfigNext ==
    \/ \E call \in ConfigCalls : Enqueue(call, TRUE)
    \/ ResolveTask
    \/ Advance(TRUE)
    \/ SettleFuture

ConfigSpec == ConfigInit /\ [][ConfigNext]_vars

\* The responses alone: two commands that wait for different codes, and
\* inbound buffers kept for inspection: ACK, DONE, a DONE followed by further
\* bytes, both codes with their bytes swapped, and an unknown code.
ResponseCalls == { Call("color", Green, 0, <<>>), Call("fade", Green, 0, [duration |-> Num(7)]) }

ResponseBuffers == { <<66, 0>>, <<0, 1>>, <<0, 1, 66, 0>>, <<0, 66>>, <<1, 0>>, <<0, 0>> }

ResponseNext ==
    \/ \E call \in ResponseCalls : Enqueue(call, TRUE)
    \/ \E buffer \in ResponseBuffers : Receive(buffer)
    \/ SettleBody
    \/ ResolveTask
    \/ Advance(TRUE)
    \/ SettleFuture

ResponseSpec == Init /\ [][ResponseNext]_vars

\* The colours alone: every command with a string that is a colour and with
\* strings that are none, on a queue that is idle, busy or cleared.
ColorCalls ==
    { Call("color", c, 0, <<>>) : c \in {Green, Red} }
    \cup { Call("fade", TwoDigits, 0, <<>>),
           Call("flash", NotHex, 0, [times |-> Num(2)]),
           Call("wave", Blank, Num(ONE), <<>>) }

ColorNext ==
    \/ \E call \in ColorCalls : Enqueue(call, TRUE)
    \/ Clear
    \/ \E buffer \in Buffers : Data(buffer)
    \/ SettleBody
    \/ ResolveTask
    \/ Advance(TRUE)
    \/ SettleFuture
    \/ SettleClear

ColorSpec == Init /\ [][ColorNext]_vars

\* The frames alone: a flag on either platform, constructed with or without
\* options, and a caller that awaits each command before it issues the next.
\* Every command is issued with explicit options and with none.
FrameOptions ==
    { <<>>,
      [brightness |-> Half, target |-> Num(BACK), duration |-> Num(255), times |-> Num(0)] }

FrameCalls ==
    { Call("color", Green, 0, <<>>),
      Call("color", Cyan, 0, [target |-> Num(FRONT)]),
      Call("off", <<>>, 0, <<>>),
      Call("off", <<>>, 0, [target |-> Num(BACK)]),
      Call("fade", Green, 0, <<>>),
      Call("fade", Cyan, 0, [target |-> Num(FRONT), duration |-> Num(7)]),
      Call("flash", Cyan, 0, <<>>),
      Call("flash", Green, 0, [target |-> Num(BACK), duration |-> Num(50), times |-> Num(3)]),
      Call("wave", Green, Num(5), <<>>),
      Call("wave", Cyan, Num(ONE), [duration |-> Num(20), times |-> Num(5)]) }

FrameInit == Constructed(Platforms, FrameOptions)

\* await flag.color(...): the caller issues a command once the one before it
\* has completed.
Awaiting(call) == current = NoTask /\ Enqueue(call, TRUE)

FrameNext ==
    \/ \E call \in FrameCalls : Awaiting(call)
    \/ \E buffer \in {<<66, 0>>, <<0, 1>>} : Data(buffer)
    \/ SettleBody
    \/ ResolveTask
    \/ Advance(TRUE)
    \/ SettleFuture

FrameSpec == FrameInit /\ [][FrameNext]_vars

\* The queue at work: no body fails (every colour is one, every write
\* returns) and clear() is not called.  The event loop runs every pending
\* promise reaction, and the device answers every frame with the response its
\* command waits for, among whatever else it sends.
LiveCalls ==
    { Call("configure", <<>>, 0, o) : o \in QueuedConfigureOptions }
    \cup { Call("color", Green, 0, <<>>),
           Call("fade", Green, 0, [duration |-> Num(7)]),
           Call("wave", Cyan, Num(ONE), [duration |-> Num(20), times |-> Num(5)]) }

\* The 'data' event that carries the response the current task waits for.
Respond == \E buffer \in Buffers : Data(buffer) /\ body' # body

LiveNext ==
    \/ \E call \in LiveCalls : Enqueue(call, TRUE)
    \/ \E buffer \in Buffers : Data(buffer)
    \/ SettleBody
    \/ ResolveTask
    \/ Advance(TRUE)
    \/ SettleFuture

Fairness ==
    /\ WF_vars(SettleBody)
    /\ WF_vars(ResolveTask)
    /\ WF_vars(Advance(TRUE))
    /\ WF_vars(SettleFuture)
    /\ WF_vars(Respond)

LiveSpec == Init /\ [][LiveNext]_vars /\ Fairness

\* --------------------------------------------------------------- claims
Range(f) == {f[i] : i \in DOMAIN f}

Issued == 1..Len(calls)

Returned(t) == body[t] \in {"fulfilled", "rejected"}

\* C1: at most one Task body executes at any instant: when a body has been
\* started, the body of every Task started before it has returned.
C1_NoOverlap ==
    \A i \in 1..Len(started) : \A j \in 1..Len(started) :
        i < j => Returned(started[i])

\* C1 witness: a third body is running after two bodies returned.
C1_Witness ==
    /\ Len(started) = 3
    /\ body[started[3]] = "pending"
    /\ body[started[1]] = "fulfilled"
    /\ body[started[2]] = "fulfilled"

\* C2: Tasks begin in submission order (ids are given in the order of the
\* enqueue calls), and a Task leaves the backlog only by being started or by
\* clear(): every issued Task is in the backlog, started or cleared.
C2_SubmissionOrder ==
    /\ \A i \in 1..Len(started) : \A j \in 1..Len(started) :
        i < j => started[i] < started[j]
    /\ \A i \in 1..Len(queue) : \A j \in 1..Len(queue) :
        i < j => queue[i].id < queue[j].id
    /\ \A t \in Issued : t \in Ids(queue) \cup Range(started) \cup cleared

\* C2 witness: three Tasks have begun, the third from a backlog of two.
C2_Witness == started = <<1, 2, 3>> /\ body[1] = "fulfilled" /\ written # <<>>

\* C3: the future of enqueue is resolved only after the Task's body completed
\* and the queue advanced past it: a successor was started, or no Task is current.
C3_FutureAfterAdvance ==
    \A t \in Issued :
        future[t] = "resolved" =>
            /\ body[t] = "fulfilled"
            /\ promise[t] = "resolved"
            /\ \E i \in 1..Len(started) :
                /\ started[i] = t
                /\ i < Len(started) \/ current = NoTask

\* C3 witness: the first future is resolved while its successor is running.
C3_Witness ==
    /\ future[1] = "resolved"
    /\ current.id = 2
    /\ body[2] = "pending"

\* C4: clear() leaves the current Task, its body and its marker alone, and no
\* Task that clear() removed from the backlog is ever started.
C4_ClearedNeverStart ==
    /\ [](cleared \cap Range(started) = {})
    /\ [][Len(clears') # Len(clears) =>
            /\ current' = current
            /\ body' = body
            /\ unblock' = unblock
            /\ unblockOn' = unblockOn
            /\ cleared' = cleared \cup Ids(queue)]_vars

\* C4 witness: Task 2 was cleared while Task 1 ran; Task 1 completed and Task 3,
\* enqueued after the clear, was started.
C4_Witness ==
    /\ cleared = {2}
    /\ started = <<1, 3>>
    /\ body[1] = "fulfilled"

\* C5: the future of clear() is resolved only when the Task that was current at
\* the call has finished, and it is resolved (its reaction is at least queued)
\* once that Task's promise is resolved or when no Task was current.
C5_ClearFollowsCurrent ==
    \A c \in 1..Len(clears) :
        LET r == clears[c].running IN
        /\ clears[c].state = "resolved" =>
            r = 0 \/ (body[r] = "fulfilled" /\ promise[r] = "resolved")
        /\ (r = 0 \/ promise[r] = "resolved") =>
            \/ clears[c].state = "resolved"
            \/ \E i \in 1..Len(microtasks) : microtasks[i] = <<"settleClear", c>>

\* C5 witness: a clear() called while a Task was waiting for its response is
\* resolved after that Task finished.
C5_Witness ==
    \E c \in 1..Len(clears) :
        /\ clears[c].running # 0
        /\ clears[c].state = "resolved"
        /\ written # <<>>
        /\ written[1].task = clears[c].running

\* C6: configure takes effect only when its Task executes: the configuration
\* was last set by a configure Task that has been started, and every frame was
\* written with a configuration set before its command was enqueued.
C6_ConfigureIsQueued ==
    /\ configuredBy # 0 =>
        /\ configuredBy \in Range(started)
        /\ calls[configuredBy] = "configure"
    /\ \A i \in 1..Len(written) : written[i].cfg < written[i].task

\* C6 witness: a command is written with the configuration of an earlier
\* configure while a later configure waits in the backlog.
C6_Witness ==
    /\ written # <<>>
    /\ written[Len(written)].task = 2
    /\ written[Len(written)].cfg = 1
    /\ queue # <<>>
    /\ Head(queue).body.op = "configure"
    /\ Head(queue).body.opts # <<>>

\* C7: executing configure({}) leaves brightness, defaultTarget,
\* defaultDuration and defaultTimes unchanged.
C7_EmptyConfigureKeeps ==
    [][(/\ started' # started
        /\ current'.body.op = "configure"
        /\ current'.body.opts = <<>>) => config' = config]_vars

InRange(x, lo, hi) == x # NaN /\ lo <= x /\ x <= hi

\* C8: the Configuration always holds clamped values: brightness in [0,1],
\* defaultDuration and defaultTimes in [0,255].
C8_ConfigurationClamped ==
    /\ InRange(brightness, Num(0), Num(1))
    /\ InRange(defaultDuration, Num(0), Num(255))
    /\ InRange(defaultTimes, Num(0), Num(255))

\* C9 as stated: an enqueue made while the current Task waits for a response
\* abandons that Task and starts the new one.
C9_EnqueueAbandonsWaiting ==
    [][(/\ Len(calls') = Len(calls) + 1
        /\ current # NoTask
        /\ body[current.id] = "pending") => current'.id = Len(calls')]_vars

\* C9 amended: a Task waiting for its response stays current and keeps the
\* marker; enqueue advances only when no Task is current, so every Task enqueued
\* after it stays unstarted and its future unresolved.
C9_WaitingBlocksBacklog ==
    \A t \in Issued :
        body[t] = "pending" =>
            /\ current.id = t
            /\ unblock = t
            /\ unblockOn # Undefined
            /\ \A u \in Issued : u > t => (body[u] = "unstarted" /\ future[u] = "pending")

\* C9 witness: a Task waits, a response it does not expect has arrived, and two
\* Tasks enqueued after it are in the backlog.
C9_Witness ==
    /\ current # NoTask
    /\ body[current.id] = "pending"
    /\ heard # {}
    /\ Len(queue) = 2

\* The response each facade method is documented to wait for.
Expected(op) == IF op \in {"color", "off"} THEN ACK ELSE DONE

\* C10: a command's body is resumed only by a step that receives, after its
\* frame was written, an ACK (color, off) or a DONE (fade, flash, wave); its
\* future is resolved only after that body completed; configure writes nothing
\* and installs no marker.
C10_ResolvedAfterResponse ==
    /\ [][\A t \in Issued :
            (body[t] = "pending" /\ body'[t] # "pending") =>
                (calls[t] # "configure" /\ Expected(calls[t]) \in heard')]_vars
    /\ [](\A t \in Issued :
            /\ future[t] = "resolved" => body[t] = "fulfilled"
            /\ (body[t] = "unblocked" /\ calls[t] \in {"color", "off"}) => ACK \in heard
            /\ (body[t] = "unblocked" /\ calls[t] \in {"fade", "flash", "wave"}) =>
                    DONE \in heard
            /\ calls[t] = "configure" =>
                /\ unblock # t
                /\ body[t] \in {"unstarted", "fulfilled"}
                /\ \A i \in 1..Len(written) : written[i].task # t)

\* C10 witness: the future of a fade is resolved, and a later color that got a
\* DONE, which did not resume it, has now been resumed by its ACK.
C10_Witness ==
    \E t \in Issued, u \in Issued :
        /\ calls[t] = "fade"
        /\ future[t] = "resolved"
        /\ calls[u] = "color"
        /\ body[u] = "unblocked"
        /\ heard = {ACK, DONE}

\* The first two bytes of an inbound buffer, and the two codes as bytes:
\* 0x42 0x00 is ACK, 0x00 0x01 is DONE.
Prefix(buffer) == IF Len(buffer) >= 2 THEN SubSeq(buffer, 1, 2) ELSE <<>>

AckBytes == <<66, 0>>

DoneBytes == <<0, 1>>

BytesOf(response) == IF response = ACK THEN AckBytes ELSE DoneBytes

\* C11: a Task suspended in blockUntil(expected) is resumed only by a step that
\* delivers a buffer whose first two bytes are the expected code, high byte
\* first; a buffer that carries the other valid code resumes nothing and leaves
\* the marker in place.
C11_OnlyExpectedResumes ==
    [][\A t \in Issued :
        body[t] = "pending" =>
            /\ body'[t] # "pending" =>
                /\ unblock = t
                /\ Prefix(inbound') = BytesOf(unblockOn)
            /\ (Prefix(inbound') \in {AckBytes, DoneBytes} \ {BytesOf(unblockOn)}) =>
                /\ body' = body
                /\ microtasks' = microtasks
                /\ unblock' = t
                /\ unblockOn' = unblockOn]_vars

\* C11 witness: a color was resumed by its ACK, and the fade after it has just
\* been sent an ACK while it waits for DONE: it still waits, marker in place.
C11_Witness ==
    /\ calls = <<"color", "fade">>
    /\ future[1] = "resolved"
    /\ body[2] = "pending"
    /\ unblock = 2
    /\ unblockOn = DONE
    /\ inbound = AckBytes

\* The strings that are no colour: "red", "#ff", "#gggggg", " ".
MalformedColors == {Red, TwoDigits, NotHex, Blank}

\* C12: a command invoked with a malformed colour string fails before any
\* device I/O: no frame of it is ever handed to the transport, and when its
\* Task is started its body fails at once, without installing a marker.
C12_MalformedNeverWritten ==
    /\ \A i \in 1..Len(written) : written[i].call.color \notin MalformedColors
    /\ (current # NoTask /\ current.body.color \in MalformedColors) =>
            /\ body[current.id] = "rejected"
            /\ unblock = Undefined
            /\ \A i \in 1..Len(written) : written[i].task # current.id

\* C12 witness: a color was written and completed, and a flash with a string
\* that is no colour, started from the backlog after it, has failed.
C12_Witness ==
    /\ Len(written) = 1
    /\ body[1] = "fulfilled"
    /\ current.id = 2
    /\ current.body.op = "flash"
    /\ current.body.color = NotHex
    /\ body[2] = "rejected"

\* C13 as stated: when the transport write of a command fails, the future the
\* command method returned fails with the error (seen once every pending
\* promise reaction has run).
C13_WriteFailureRejects ==
    (/\ current # NoTask
     /\ body[current.id] = "rejected"
     /\ current.body.color \notin MalformedColors
     /\ microtasks = <<>>) => future[current.id] = "rejected"

\* The channels of the colours, the fixed-point numbers as integers, and a
\* channel at a brightness, rounded down.
Rgb(color) ==
    IF color = Green THEN <<0, 255, 0>>
    ELSE IF color = Cyan THEN <<0, 255, 255>>
    ELSE <<0, 0, 0>>

Whole(x) == x \div Unit

Dimmed(channel, b) == (channel * b) \div Unit

Given(opts, field, default) == IF field \in DOMAIN opts THEN opts[field] ELSE default

\* The frame of the protocol table for the command c under the configuration cfg.
Frame(c, cfg) ==
    LET T == Whole(Given(c.opts, "target", cfg[2]))
        D == Whole(Given(c.opts, "duration", cfg[3]))
        N == Whole(Given(c.opts, "times", cfg[4]))
        R == Dimmed(Rgb(c.color)[1], cfg[1])
        G == Dimmed(Rgb(c.color)[2], cfg[1])
        B == Dimmed(Rgb(c.color)[3], cfg[1])
    IN  CASE c.op = "color" -> <<1, T, R, G, B, 0, 0>>
          [] c.op = "fade" -> <<2, T, R, G, B, D, 0>>
          [] c.op = "flash" -> <<3, T, R, G, B, D, 0, N>>
          [] c.op = "wave" -> <<4, Whole(c.wave), R, G, B, 0, N, D>>

\* The single zero byte that goes before the frame on Windows.
Lead == IF platform = "win32" THEN <<0>> ELSE <<>>

\* C14: every frame handed to the transport is, after the platform's leading
\* byte, the frame of the protocol table for its command, with each parameter
\* the explicit option or else the Configuration default, and RGB scaled by
\* the brightness; off writes the color frame with RGB (0,0,0); the wave and
\* the color of the examples write exactly the bytes given.
C14_ExactFrames ==
    \A i \in 1..Len(written) :
        LET w == written[i] IN
        /\ w.bytes = Lead \o Frame(w.call, w.config)
        /\ calls[w.task] = "off" =>
                w.bytes = Lead \o <<1, Whole(Given(w.call.opts, "target", w.config[2])),
                                    0, 0, 0, 0, 0>>
        /\ (w.call = Call("wave", Cyan, Num(ONE), [duration |-> Num(20), times |-> Num(5)])
                /\ w.config[1] = Num(1)) =>
                w.bytes = Lead \o <<4, 1, 0, 255, 255, 0, 5, 20>>
        /\ (w.call = Call("color", Green, 0, <<>>) /\ w.config = _configure(<<>>)) =>
                w.bytes = Lead \o <<1, 255, 0, 255, 0, 0, 0>>

\* C14 witness: on Windows, at brightness 0.5, the wave of the example and then
\* a flash without options and an off without target have been written.
C14_Witness ==
    /\ platform = "win32"
    /\ brightness = Half
    /\ calls = <<"wave", "flash", "off">>
    /\ Len(written) = 3
    /\ written[1].call.opts # <<>>
    /\ written[1].bytes = <<0, 4, 1, 0, 127, 127, 0, 5, 20>>
    /\ written[2].call.opts = <<>>
    /\ written[2].bytes = <<0, 3, 66, 0, 127, 127, 255, 0, 0>>
    /\ written[3].bytes = <<0, 1, 66, 0, 0, 0, 0, 0>>

\* C15 as stated: every value handed to the transport write is an integer in
\* 0..255, whatever target, duration and times the caller passed.
C15_WrittenBytesInRange ==
    \A i \in 1..Len(written) :
        \A j \in 1..Len(written[i].bytes) : written[i].bytes[j] \in 0..255

\* C16: the marker belongs to the current Task: a set marker implies a current
\* Task that installed it, waiting for the code that Task asked for; the resume
\* handle and the expected code are set or unset together; and every advance
\* leaves the marker cleared, so that no Task is current, or a Task that
\* installs none is current (configure, a failed body), with a marker set.
C16_MarkerOwnedByCurrent ==
    /\ (unblock = Undefined) <=> (unblockOn = Undefined)
    /\ unblock # Undefined =>
        /\ current # NoTask
        /\ unblock = current.id
        /\ unblockOn = Expected(calls[current.id])
        /\ body[current.id] \in {"pending", "unblocked", "fulfilled"}
        /\ \E i \in 1..Len(written) : written[i].task = current.id
    /\ current = NoTask => unblock = Undefined
    /\ (current # NoTask /\ calls[current.id] = "configure") => unblock = Undefined
    /\ (current # NoTask /\ body[current.id] = "rejected") => unblock = Undefined

\* C16 witness: a command installed its marker and completed, and the configure
\* started after it is current with no marker.
C16_Witness ==
    /\ Len(started) >= 2
    /\ calls[started[1]] # "configure"
    /\ body[started[1]] = "fulfilled"
    /\ current.id = started[2]
    /\ current.body.op = "configure"
    /\ unblock = Undefined
    /\ unblockOn = Undefined

\* C17 as stated: the frame a command writes is built from the Configuration
\* that was in force when the facade method was invoked.
C17_ResolvedAtInvocation ==
    \A i \in 1..Len(written) :
        written[i].task = current.id =>
            /\ written[i].cfg = current.at.by
            /\ written[i].config = current.at.config

\* The configure Task that ran last before the Task t, and what the
\* Configuration is after it (0: the constructor without options).
LastConfigure(t) ==
    LET S == {c \in Range(started) : calls[c] = "configure" /\ c < t}
    IN  IF S = {} THEN 0 ELSE CHOOSE c \in S : \A d \in S : d <= c

ConfiguredAs(c) ==
    IF c = 0 THEN <<Num(1), Num(ALL), Num(20), Num(5)>>
    ELSE <<Half, Num(FRONT), Num(255), Num(5)>>

\* C17 amended: the parameters a command leaves out and the brightness are read
\* when its Task's body runs: the frame is built from the Configuration left by
\* the last configure Task that ran before it, also when that configure ran
\* after the command was invoked.
C17_ResolvedAtExecution ==
    \A i \in 1..Len(written) :
        LET w == written[i] IN
        /\ w.cfg = LastConfigure(w.task)
        /\ w.config = ConfiguredAs(w.cfg)
        /\ w.bytes = Frame(w.call, ConfiguredAs(w.cfg))

\* C17 witness: a fade was invoked under the constructor's Configuration while
\* a color was running and a configure was queued; the configure ran in
\* between, and the fade's frame has the new target, brightness and duration.
C17_Witness ==
    /\ calls = <<"color", "configure", "fade">>
    /\ current.id = 3
    /\ current.at.by = 0
    /\ Len(written) = 2
    /\ written[2].task = 3
    /\ written[2].cfg = 2
    /\ written[2].bytes = <<2, 65, 0, 127, 0, 7, 0>>

\* C19: whenever no Task is current the backlog is empty.
C19_IdleMeansEmpty == current = NoTask => queue = <<>>

\* C19 witness: the queue is idle again after two Tasks ran, one was cleared
\* from the backlog and the future of clear() was resolved.
C19_Witness ==
    /\ current = NoTask
    /\ queue = <<>>
    /\ Len(started) = 2
    /\ cleared # {}
    /\ Len(clears) = 1
    /\ clears[1].state = "resolved"

\* C20: the future of a Task that clear() removed from the backlog never
\* settles: in every state after the clear it is pending, the Task's promise
\* is pending and its body has not been started.
C20_ClearedNeverSettle ==
    \A t \in cleared :
        /\ future[t] = "pending"
        /\ promise[t] = "pending"
        /\ body[t] = "unstarted"
        /\ t \notin Ids(queue)
        /\ current.id # t

\* C20 witness: Task 2 was cleared; Tasks 1 and 3 have run, their futures are
\* resolved, nothing is left to run, and the future of Task 2 is still pending.
C20_Witness ==
    /\ cleared = {2}
    /\ future[1] = "resolved"
    /\ future[3] = "resolved"
    /\ current = NoTask
    /\ microtasks = <<>>
    /\ future[2] = "pending"

\* C18: a step that delivers a buffer whose first two bytes are neither
\* 0x42 0x00 nor 0x00 0x01 ends inside the listener: no response is decoded, no
\* Task is resumed, no promise or future is settled or made to fail, and the
\* marker, the current Task and the backlog are as before.
C18_UnrecognizedChangesNothing ==
    [][(Len(inbound') >= 2 /\ Prefix(inbound') \notin {AckBytes, DoneBytes}) =>
            UNCHANGED <<current, queue, unblock, unblockOn, body, promise, future,
                        clears, microtasks, heard, written, started, cleared,
                        brightness, defaultTarget, defaultDuration, defaultTimes>>]_vars

\* C18 witness: an unknown code has just been delivered while a Task waits for
\* its response with another Task behind it in the backlog.
C18_Witness ==
    /\ inbound = <<0, 0>>
    /\ current # NoTask
    /\ body[current.id] = "pending"
    /\ unblock = current.id
    /\ queue # <<>>
    /\ future[current.id] = "pending"

\* C21: a Task whose body failed (malformed colour or failing write) stays
\* current for ever: its promise and its future are never settled, no advance
\* follows, so no Task is started after it, and every clear() called after the
\* failure returns a future that stays pending.
C21_FailedTaskBlocksQueue ==
    /\ [](\A t \in Issued :
            body[t] = "rejected" =>
                /\ current.id = t
                /\ promise[t] = "pending"
                /\ future[t] = "pending"
                /\ started[Len(started)] = t
                /\ \A i \in 1..Len(microtasks) : microtasks[i][1] # "advance"
                /\ \A u \in Issued : u > t => (body[u] = "unstarted" /\ future[u] = "pending")
                /\ \A c \in 1..Len(clears) :
                        clears[c].running = t => clears[c].state = "pending")
    /\ [][\A t \in Issued :
            body[t] = "rejected" =>
                /\ body'[t] = "rejected"
                /\ current' = current
                /\ started' = started]_vars

\* C21 witness: the write of the first command failed; a clear() called
\* afterwards is pending, a command enqueued after that waits in the backlog,
\* and no promise reaction is left to run.
C21_Witness ==
    /\ Len(calls) = 3
    /\ current.id = 1
    /\ current.body.color \notin MalformedColors
    /\ body[1] = "rejected"
    /\ cleared = {2}
    /\ clears[1].running = 1
    /\ clears[1].state = "pending"
    /\ Ids(queue) = {3}
    /\ microtasks = <<>>

\* The queue is Idle: no current Task, an empty backlog, no marker.
Idle ==
    /\ current = NoTask
    /\ queue = <<>>
    /\ unblock = Undefined
    /\ unblockOn = Undefined

\* C22: when no body fails, clear() is not called, promise reactions run and
\* the device answers every frame, every enqueued Task eventually begins, its
\* future is eventually resolved, and after the last enqueue the queue returns
\* to Idle and stays there.
C22_EveryTaskCompletes ==
    /\ \A t \in TaskIds : (future[t] = "pending") ~> (t \in Range(started))
    /\ \A t \in TaskIds : (future[t] = "pending") ~> (future[t] = "resolved")
    /\ <>[]Idle

\* C22 witness: three Tasks were enqueued, two of them commands that waited
\* for a response behind another Task, all futures are resolved and the queue
\* is Idle.
C22_Witness ==
    /\ Len(calls) = MaxTasks
    /\ \A t \in TaskIds : future[t] = "resolved"
    /\ Len(written) >= 2
    /\ started = [t \in TaskIds |-> t]
    /\ Idle
    /\ microtasks = <<>>
====
